---------------------------- MODULE Spec2Model ----------------------------
(***************************************************************************)
(* QuantPulse ensemble prediction service                                  *)
(*   src/QuantPulse-Backend/app/services/ensemble_service.py               *)
(*                                                                         *)
(* QuantAgent.get_base_forecast, TopologyAgent (_build_adjacency_matrix,   *)
(* compute_laplacian_risk), SentimentAgent.get_sentiment_multiplier and    *)
(* EnsembleOrchestrator.predict with the module-level ensemble_cache       *)
(* (cachetools.TTLCache(maxsize=100, ttl=300)).                            *)
(*                                                                         *)
(* Numbers.  Python/numpy floats are modelled as exact rationals <<n, d>>  *)
(* in lowest terms with d > 0; the IEEE special values numpy produces are  *)
(* the pairs with d = 0: <<1,0>> is +inf, <<-1,0>> is -inf, <<0,0>> is     *)
(* NaN.  round(x, k) is modelled as round-half-even of the exact value.    *)
(* Binary representation error (at most a few ulp) is not modelled.        *)
(***************************************************************************)
EXTENDS Integers, Sequences, FiniteSets, TLC

-----------------------------------------------------------------------------
(* Float arithmetic *)

\* TLC passes operator arguments and LET definitions unevaluated; Only({e : v \in {x}})
\* evaluates x once and binds its value, so each operator below costs one
\* evaluation of each argument.
Only(S) == CHOOSE r \in S : TRUE

Abs(i) == IF i < 0 THEN -i ELSE i

Sgn(i) == IF i < 0 THEN -1 ELSE IF i > 0 THEN 1 ELSE 0

RECURSIVE Gcd(_, _)
Gcd(a, b) == IF b = 0 THEN a ELSE Gcd(b, a % b)

\* the float n/d; d = 0 gives the special values
Q(n, d) ==
    IF d = 0 THEN <<Sgn(n), 0>>
    ELSE LET s == IF d < 0 THEN -1 ELSE 1
             g == Gcd(Abs(n), Abs(d))
         IN  <<(s * n) \div g, (s * d) \div g>>

I(n) == <<n, 1>>

NaN == <<0, 0>>
PosInf == <<1, 0>>
NegInf == <<-1, 0>>

IsNaN(x) == x = NaN
IsFinite(x) == x[2] # 0

Neg(x) == Only({<<-a[1], a[2]>> : a \in {x}})

FAbs(x) == Only({<<Abs(a[1]), a[2]>> : a \in {x}})

\* x * y; inf * 0 = NaN, NaN * y = NaN
Mul(x, y) ==
    Only({IF a[2] = 0 \/ b[2] = 0 THEN Q(a[1] * b[1], 0)
          ELSE LET g1 == Gcd(Abs(a[1]), b[2])
                   g2 == Gcd(Abs(b[1]), a[2])
               IN  Q((a[1] \div g1) * (b[1] \div g2), (a[2] \div g2) * (b[2] \div g1))
          : a \in {x}, b \in {y}})

\* 1 / x with the IEEE results: 1/0 = inf, 1/inf = 0, 1/NaN = NaN
Recip(x) ==
    Only({IF IsNaN(a) THEN NaN
          ELSE IF a[2] = 0 THEN I(0)
          ELSE IF a[1] = 0 THEN PosInf
          ELSE IF a[1] < 0 THEN <<-a[2], -a[1]>>
          ELSE <<a[2], a[1]>>
          : a \in {x}})

\* numpy float64 division: no exception; x/0 is inf or NaN
Div(x, y) == Mul(x, Recip(y))

Add(x, y) ==
    Only({IF IsNaN(a) \/ IsNaN(b) THEN NaN
          ELSE IF a[2] = 0 /\ b[2] = 0 THEN (IF a = b THEN a ELSE NaN)
          ELSE IF a[2] = 0 THEN a
          ELSE IF b[2] = 0 THEN b
          ELSE LET g == Gcd(a[2], b[2])
               IN  Q(a[1] * (b[2] \div g) + b[1] * (a[2] \div g), (a[2] \div g) * b[2])
          : a \in {x}, b \in {y}})

Sub(x, y) == Add(x, Neg(y))

\* a/b < c/d for b, d > 0, by continued-fraction comparison (no products)
RECURSIVE LtFrac(_, _, _, _)
LtFrac(a, b, c, d) ==
    LET qa == a \div b
        qc == c \div d
        ra == a % b
        rc == c % d
    IN  IF qa # qc THEN qa < qc
        ELSE IF rc = 0 THEN FALSE
        ELSE IF ra = 0 THEN TRUE
        ELSE LtFrac(d, rc, b, ra)

\* x < y as floats: every comparison with NaN is false
Lt(x, y) ==
    Only({IF IsNaN(a) \/ IsNaN(b) THEN FALSE
          ELSE IF a[2] = 0 /\ b[2] = 0 THEN a[1] < b[1]
          ELSE IF a[2] = 0 THEN a[1] < 0
          ELSE IF b[2] = 0 THEN b[1] > 0
          ELSE LtFrac(a[1], a[2], b[1], b[2])
          : a \in {x}, b \in {y}})

Gt(x, y) == Lt(y, x)
Le(x, y) == Only({~IsNaN(a) /\ ~IsNaN(b) /\ ~Lt(b, a) : a \in {x}, b \in {y}})

\* Python builtins min(a, b) and max(a, b): the first argument is kept unless
\* the second compares strictly smaller (larger), so a NaN first argument stays
PyMin(x, y) == Only({IF Lt(b, a) THEN b ELSE a : a \in {x}, b \in {y}})
PyMax(x, y) == Only({IF Gt(b, a) THEN b ELSE a : a \in {x}, b \in {y}})

Pow10(k) == CASE k = 0 -> 1 [] k = 1 -> 10 [] k = 2 -> 100
              [] k = 3 -> 1000 [] k = 4 -> 10000

\* floor(r * 10^k / d) and the remainder, digit by digit
RECURSIVE LongDiv(_, _, _)
LongDiv(r, d, k) ==
    IF k = 0 THEN <<0, r>>
    ELSE Only({<<t[1] * 10 + ((t[2] * 10) \div d), (t[2] * 10) % d>>
               : t \in {LongDiv(r, d, k - 1)}})

\* round(x, k): nearest multiple of 10^-k, ties to even; NaN and inf pass through
Round(x, k) ==
    Only({IF a[2] = 0 THEN a
          ELSE Only({LET fl == (a[1] \div a[2]) * Pow10(k) + ld[1]
                         r2 == 2 * ld[2]
                         up == r2 > a[2] \/ (r2 = a[2] /\ fl % 2 = 1)
                     IN  Q(IF up THEN fl + 1 ELSE fl, Pow10(k))
                     : ld \in {LongDiv(a[1] % a[2], a[2], k)}})
          : a \in {x}})

-----------------------------------------------------------------------------
(* SentimentAgent *)

\* A sentiment payload (sentiment_data).  shape is
\*   "None"      no payload,
\*   "empty"     {} (falsy),
\*   "no_news"   a non-empty dict without the key 'news',
\*   "news_null" {'news': None},
\*   "news"      {'news': {...}} with the two optional fields below.
\* direction is the value of 'sentimentDirection' ("missing" when the key is
\* absent); conf_kind is "num", "missing" or "str" (a non-numeric value) and
\* conf the numeric value of 'confidence'.
Payload(shape, direction, conf_kind, conf) ==
    [shape |-> shape, direction |-> direction, conf_kind |-> conf_kind, conf |-> conf]

NoPayload == Payload("None", "missing", "missing", I(0))

SentimentDefault ==
    [consensus_score      |-> I(0),
     sentiment_multiplier |-> I(1),
     sentiment_label      |-> "Neutral",
     bull_bear_ratio      |-> Q(1, 2),
     confidence           |-> I(50)]

\* lines 336-337: the two .get() chains; 'news' defaults to {}
news_direction(sd) ==
    IF sd.shape = "no_news" \/ sd.direction = "missing" THEN "NEUTRAL" ELSE sd.direction

news_confidence(sd) ==
    IF sd.shape = "no_news" \/ sd.conf_kind = "missing" THEN I(50) ELSE sd.conf

\* lines 340-351
base_multiplier(dir) ==
    IF dir = "UP" THEN Q(105, 100) ELSE IF dir = "DOWN" THEN Q(95, 100) ELSE I(1)

consensus(dir) ==
    IF dir = "UP" THEN Q(1, 2) ELSE IF dir = "DOWN" THEN Q(-1, 2) ELSE I(0)

label(dir) ==
    IF dir = "UP" THEN "Bullish" ELSE IF dir = "DOWN" THEN "Bearish" ELSE "Neutral"

\* lines 354-360
scaled_multiplier(base, conf) ==
    LET confidence_factor == Div(conf, I(100))
    IN  IF Gt(base, I(1))
        THEN Add(I(1), Div(Mul(Mul(Q(1, 10), confidence_factor), Sub(base, I(1))), Q(5, 100)))
        ELSE IF Lt(base, I(1))
        THEN Sub(I(1), Div(Mul(Mul(Q(1, 10), confidence_factor), Sub(I(1), base)), Q(5, 100)))
        ELSE I(1)

\* variant: the multiplier is not clamped
no_clamp(m) == m

\* line 363
clamp_multiplier(m) == PyMax(Q(9, 10), PyMin(Q(11, 10), m))

\* the statements inside the try block raise: None.get (AttributeError) or a
\* non-numeric confidence / 100 (TypeError); the except clause keeps the default
sentiment_raises(sd) ==
    \/ sd.shape = "news_null"
    \/ sd.shape = "news" /\ sd.conf_kind = "str"

get_sentiment_multiplier(sd) ==
    IF sd.shape \in {"None", "empty"} THEN SentimentDefault
    ELSE IF sentiment_raises(sd) THEN SentimentDefault
    ELSE LET dir  == news_direction(sd)
             conf == news_confidence(sd)
             mult == clamp_multiplier(scaled_multiplier(base_multiplier(dir), conf))
         IN  [consensus_score      |-> Round(consensus(dir), 2),
              sentiment_multiplier |-> Round(mult, 4),
              sentiment_label      |-> label(dir),
              bull_bear_ratio      |-> Round(Add(Q(1, 2), Mul(consensus(dir), Q(1, 2))), 2),
              confidence           |-> conf]

-----------------------------------------------------------------------------
(* Symbols *)

\* the symbol strings the calls draw from; "ZZZ" is in no data file
Symbols == {"AAA", "aaa", "BBB", "bbb", "CCC", "DDD", "ZZZ", "HUB", "LF6"}

\* str.upper() on the symbols above
upper(symbol) ==
    IF symbol = "aaa" THEN "AAA" ELSE IF symbol = "bbb" THEN "BBB" ELSE symbol

-----------------------------------------------------------------------------
(* QuantAgent *)

VARIABLES market_data

\* A column of market_data.csv: numeric is FALSE for a column pandas reads as
\* text (dtype object); values are the cells in row order, NaN for an empty cell.
Column(numeric, values) == [numeric |-> numeric, values |-> values]

\* k copies of v
Rep(v, k) == [i \in 1..k |-> v]

RECURSIVE SelectNotNaN(_)
SelectNotNaN(seq) ==
    IF seq = <<>> THEN <<>>
    ELSE IF IsNaN(Head(seq)) THEN SelectNotNaN(Tail(seq))
    ELSE <<Head(seq)>> \o SelectNotNaN(Tail(seq))

\* Series.dropna().values
dropna(col) == SelectNotNaN(col.values)

\* prices[-k:]
LastK(seq, k) ==
    IF Len(seq) <= k THEN seq ELSE SubSeq(seq, Len(seq) - k + 1, Len(seq))

RECURSIVE FSum(_)
FSum(seq) == IF seq = <<>> THEN I(0) ELSE Add(Head(seq), FSum(Tail(seq)))

\* np.mean
mean(seq) == Div(FSum(seq), I(Len(seq)))

\* np.diff(prices) / prices[:-1]
returns(prices) ==
    [i \in 1..(Len(prices) - 1) |-> Div(Sub(prices[i + 1], prices[i]), prices[i])]

\* A volatility value.  The fallback carries the literal 0.02.  np.std is a
\* square root and has no exact rational value, so the technical branch carries
\* round(np.std(returns) * 100, 2) as an uninterpreted function of the returns.
VolLiteral(x) == [kind |-> "literal", val |-> x, of |-> <<>>]
VolStd(rets)  == [kind |-> "round(std(of)*100,2)", val |-> NaN, of |-> rets]

\* lines 66-74
fallback_forecast(current_price) ==
    [base_price      |-> current_price,
     predicted_price |-> Mul(current_price, Q(102, 100)),
     direction       |-> "UP",
     confidence      |-> I(65),
     volatility      |-> VolLiteral(Q(2, 100)),
     trend_strength  |-> Q(1, 2),
     method          |-> "fallback"]

\* lines 90-120, from the trend and the momentum
forecast_from(trend, momentum, rets, current_price) ==
    LET up       == Gt(trend, Q(1, 100)) /\ Gt(momentum, I(0))
        down     == Lt(trend, Q(-1, 100)) /\ Lt(momentum, I(0))
        direction == IF up THEN "UP" ELSE IF down THEN "DOWN" ELSE "SIDEWAYS"
        price_change ==
            IF up THEN Mul(FAbs(trend), Add(I(1), momentum))
            ELSE IF down THEN Mul(Neg(FAbs(trend)), Add(I(1), FAbs(momentum)))
            ELSE Mul(trend, Q(1, 2))
        predicted_price == Mul(current_price, Add(I(1), price_change))
        trend_strength  == PyMin(Mul(FAbs(trend), I(100)), I(1))
        confidence      == Add(I(50), Mul(trend_strength, I(40)))
    IN  [base_price      |-> current_price,
         predicted_price |-> Round(predicted_price, 2),
         direction       |-> direction,
         confidence      |-> Round(confidence, 1),
         volatility      |-> VolStd(rets),
         trend_strength  |-> Round(trend_strength, 2),
         method          |-> "lstm_technical"]

\* lines 82-120, on a numeric series of at least 20 prices
technical_forecast(prices, current_price) ==
    Only({Only({forecast_from(trend, momentum, rets, current_price)
                : trend    \in {Div(Sub(sma_5, sma_20), sma_20)},
                  momentum \in {Div(Sub(prices[Len(prices)], sma_5), sma_5)},
                  rets     \in {returns(prices)}})
          : sma_20 \in {mean(LastK(prices, 20))}, sma_5 \in {mean(LastK(prices, 5))}})

\* line 63
symbol_col(symbol) == upper(symbol) \o ".NS"

\* lines 76-125.  market_data is [loaded, columns]: loaded is FALSE when
\* market_data.csv was not found (self.market_data is None).  Inside the try
\* block only np.diff on a text column raises (TypeError); float64 division
\* by zero does not raise.
\* variant: a series needs more than 20 observations
get_base_forecast_over_20(md, symbol, current_price) ==
    LET col == symbol_col(symbol)
    IN  IF ~md.loaded \/ col \notin DOMAIN md.columns THEN fallback_forecast(current_price)
        ELSE Only({IF Len(prices) <= 20 THEN fallback_forecast(current_price)
                   ELSE IF ~md.columns[col].numeric THEN fallback_forecast(current_price)
                   ELSE technical_forecast(prices, current_price)
                   : prices \in {dropna(md.columns[col])}})

get_base_forecast(md, symbol, current_price) ==
    LET col == symbol_col(symbol)
    IN  IF ~md.loaded \/ col \notin DOMAIN md.columns THEN fallback_forecast(current_price)
        ELSE Only({IF Len(prices) < 20 THEN fallback_forecast(current_price)
                   ELSE IF ~md.columns[col].numeric THEN fallback_forecast(current_price)
                   ELSE technical_forecast(prices, current_price)
                   : prices \in {dropna(md.columns[col])}})

-----------------------------------------------------------------------------
(* TopologyAgent *)

VARIABLES graph_data, nodes, adjacency_matrix

\* A node of graphData.json; has_risk / has_group say whether the keys
\* 'risk_score' / 'group' are present.
Node(id, has_risk, risk_score, has_group, group) ==
    [id |-> id, has_risk |-> has_risk, risk_score |-> risk_score,
     has_group |-> has_group, group |-> group]

\* A link; has_value says whether the key 'value' is present.
Link(source, target, has_value, value) ==
    [source |-> source, target |-> target, has_value |-> has_value, value |-> value]

Cluster(name, risk, members) == [name |-> name, risk |-> risk, members |-> members]

\* graphData.json; loaded is FALSE when the file was not found (graph_data None)
GraphData(ns, links, clusters) ==
    [loaded |-> TRUE, nodes |-> ns, links |-> links, clusters |-> clusters]

NoGraph == [loaded |-> FALSE, nodes |-> <<>>, links |-> <<>>, clusters |-> <<>>]

\* list.index(x): the first position holding x
index(seq, x) == CHOOSE i \in 1..Len(seq) : seq[i] = x /\ \A k \in 1..(i - 1) : seq[k] # x

InList(seq, x) == \E i \in 1..Len(seq) : seq[i] = x

\* line 151
node_ids(gd) == [i \in 1..Len(gd.nodes) |-> gd.nodes[i].id]

zeros(n) == [i \in 1..n |-> [j \in 1..n |-> I(0)]]

\* lines 170-176: the links in order, a later link overwriting an earlier one
RECURSIVE apply_links(_, _, _)
apply_links(m, ids, links) ==
    IF links = <<>> THEN m
    ELSE LET link == Head(links)
             v    == IF link.has_value THEN link.value ELSE I(1)
         IN  IF InList(ids, link.source) /\ InList(ids, link.target)
             THEN LET i  == index(ids, link.source)
                      j  == index(ids, link.target)
                      m1 == [m EXCEPT ![i][j] = v]
                      m2 == [m1 EXCEPT ![j][i] = v]
                  IN  apply_links(m2, ids, Tail(links))
             ELSE apply_links(m, ids, Tail(links))

\* lines 179-190: for node position a and other position b (visited in list
\* order) the cell [index(a.id), index(b.id)] is set; the last visit wins
synth_cell(gd, ids, i, j) ==
    LET hits == {<<a, b>> \in (1..Len(gd.nodes)) \X (1..Len(gd.nodes)) :
                    /\ gd.nodes[b].id # gd.nodes[a].id
                    /\ index(ids, gd.nodes[a].id) = i
                    /\ index(ids, gd.nodes[b].id) = j}
    IN  IF hits = {} THEN I(0)
        ELSE LET last == CHOOSE h \in hits : \A g \in hits :
                            g[1] < h[1] \/ (g[1] = h[1] /\ g[2] <= h[2])
                 node  == gd.nodes[last[1]]
                 other == gd.nodes[last[2]]
                 group == IF node.has_group THEN node.group ELSE 0
             IN  IF other.has_group /\ other.group = group THEN Q(7, 10) ELSE Q(3, 10)

\* lines 159-190
build_adjacency_matrix(gd) ==
    LET ids == node_ids(gd)
        n   == Len(ids)
    IN  IF gd.links # <<>> THEN apply_links(zeros(n), ids, gd.links)
        ELSE [i \in 1..n |-> [j \in 1..n |-> synth_cell(gd, ids, i, j)]]

\* --- numpy.linalg.eigvalsh -------------------------------------------------
\* The eigenvalues are found exactly as the roots of det(xI - M) on a grid of
\* tenths, or of hundredths when a weight needs it; the graph data sets are
\* chosen with weights and Laplacian spectra on that grid (SpectrumOnGrid).

\* the grid of a matrix: 10 steps to the unit, or 100
grid_of(adj) ==
    IF \A i, j \in 1..Len(adj) : adj[i][j][2] # 0 /\ 10 % adj[i][j][2] = 0
    THEN 10 ELSE 100

\* a weight in steps of the grid
Scaled(x, unit) == x[1] * (unit \div x[2])

RECURSIVE SeqSum(_)
SeqSum(seq) == IF seq = <<>> THEN 0 ELSE Head(seq) + SeqSum(Tail(seq))

RemoveAt(seq, k) == [i \in 1..(Len(seq) - 1) |-> IF i < k THEN seq[i] ELSE seq[i + 1]]

\* determinant of the integer matrix m restricted to the given rows and columns
RECURSIVE Det(_, _, _)
Det(m, rows, cols) ==
    IF rows = <<>> THEN 1
    ELSE SeqSum([k \in 1..Len(cols) |->
            (IF k % 2 = 1 THEN 1 ELSE -1) * m[rows[1]][cols[k]]
                * Det(m, Tail(rows), RemoveAt(cols, k))])

RECURSIVE SortedSeq(_)
SortedSeq(S) ==
    IF S = {} THEN <<>>
    ELSE LET lo == CHOOSE x \in S : \A y \in S : x <= y
         IN  <<lo>> \o SortedSeq(S \ {lo})

\* sum of the principal minors of m over the index sets in Ss
RECURSIVE MinorSum(_, _)
MinorSum(m, Ss) ==
    IF Ss = {} THEN 0
    ELSE LET S == CHOOSE T \in Ss : TRUE
         IN  Det(m, SortedSeq(S), SortedSeq(S)) + MinorSum(m, Ss \ {S})

\* the characteristic polynomial det(xI - M) = x^n - e1 x^(n-1) + e2 x^(n-2) - ...
\* as its coefficients from the leading one down; e_k is the sum of the
\* principal minors of order k
CharPoly(m) ==
    [i \in 1..(Len(m) + 1) |->
        (IF i % 2 = 1 THEN 1 ELSE -1)
            * MinorSum(m, {S \in SUBSET (1..Len(m)) : Cardinality(S) = i - 1})]

\* Horner evaluation of the polynomial with coefficients c at x
RECURSIVE PolyEval(_, _, _)
PolyEval(c, x, acc) == IF c = <<>> THEN acc ELSE PolyEval(Tail(c), x, acc * x + Head(c))

\* coefficients of the derivative
PolyDeriv(c) == [i \in 1..(Len(c) - 1) |-> c[i] * (Len(c) - i)]

\* multiplicity of x as a root of the polynomial c (0 when it is none)
RECURSIVE Multiplicity(_, _)
Multiplicity(c, x) ==
    IF Len(c) <= 1 \/ PolyEval(c, x, 0) # 0 THEN 0
    ELSE 1 + Multiplicity(PolyDeriv(c), x)

\* Gershgorin: every eigenvalue lies in [lo, hi], the hull of the discs
\* m[i][i] +/- (sum of the other |entries| of row i)
Gershgorin(m) ==
    LET n == Len(m)
        radius(i) == SeqSum([j \in 1..n |-> IF j = i THEN 0 ELSE Abs(m[i][j])])
        los == {m[i][i] - radius(i) : i \in 1..n}
        his == {m[i][i] + radius(i) : i \in 1..n}
    IN  IF n = 0 THEN <<0, 0>>
        ELSE <<CHOOSE b \in los : \A c \in los : b <= c,
               CHOOSE b \in his : \A c \in his : c <= b>>

\* the roots xs (ascending), each repeated by its multiplicity
RECURSIVE Spread(_, _)
Spread(c, xs) ==
    IF xs = <<>> THEN <<>>
    ELSE [i \in 1..Multiplicity(c, Head(xs)) |-> Head(xs)] \o Spread(c, Tail(xs))

\* sorted(np.linalg.eigvalsh(L)) in tenths; eigvalsh reads the lower triangle
eigvalsh(L10) ==
    Only({Only({Spread(c, SortedSeq({x \in g[1]..g[2] : PolyEval(c, x, 0) = 0}))
                : g \in {Gershgorin(sym)}, c \in {CharPoly(sym)}})
          : sym \in {[i \in 1..Len(L10) |-> [j \in 1..Len(L10) |->
                        IF i >= j THEN L10[i][j] ELSE L10[j][i]]]}})

\* lines 247-248: L = D - A with D the diagonal of the row sums, in steps of
\* the grid
laplacian(adj, unit) ==
    LET n == Len(adj)
        rowsum(i) == SeqSum([j \in 1..n |-> Scaled(adj[i][j], unit)])
    IN  [i \in 1..n |-> [j \in 1..n |->
            (IF i = j THEN rowsum(i) ELSE 0) - Scaled(adj[i][j], unit)]]

SpectrumOnGrid(adj) ==
    /\ \A i, j \in 1..Len(adj) :
           IsFinite(adj[i][j]) /\ grid_of(adj) % adj[i][j][2] = 0
    /\ Len(eigvalsh(laplacian(adj, grid_of(adj)))) = Len(adj)

\* lines 201-209
TopologyDefault ==
    [network_risk_penalty |-> I(0),
     risk_adjustment      |-> I(1),
     centrality_score     |-> Q(1, 2),
     cluster_name         |-> "Unknown",
     cluster_risk         |-> "Moderate",
     neighbor_signals     |-> <<>>,
     contagion_risk       |-> I(0)]

\* np.where(row > 0)[0]: the positions with positive weight, ascending
positive_positions(row) == SortedSeq({j \in 1..Len(row) : Gt(row[j], I(0))})

\* neighbors[:5]
FirstK(seq, k) == IF Len(seq) <= k THEN seq ELSE SubSeq(seq, 1, k)

\* lines 227-231
degree_centrality(ids, adj, node_idx) ==
    LET degree     == Len(positive_positions(adj[node_idx]))
        max_degree == Len(ids) - 1
    IN  IF max_degree > 0 THEN Q(degree, max_degree) ELSE I(0)

\* lines 236-242: the first cluster listing the symbol
find_cluster(gd, sym) ==
    LET hits == {c \in 1..Len(gd.clusters) : sym \in gd.clusters[c].members}
    IN  IF hits = {} THEN [name |-> "General", risk |-> "Moderate"]
        ELSE LET c == CHOOSE h \in hits : \A g \in hits : h <= g
             IN  [name |-> gd.clusters[c].name, risk |-> gd.clusters[c].risk]

\* lines 247-256
contagion_of(adj) ==
    Only({LET unit          == grid_of(adj)
              fiedler_value == IF Len(eigenvalues) > 1
                               THEN Q(eigenvalues[2], unit) ELSE I(0)
          IN  PyMin(Div(fiedler_value, I(10)), I(1))
          : eigenvalues \in {eigvalsh(laplacian(adj, grid_of(adj)))}})

\* lines 266-274: the first node record with the neighbour's id
neighbor_signal(gd, n_symbol) ==
    LET n_data     == gd.nodes[index(node_ids(gd), n_symbol)]
        risk_score == IF n_data.has_risk THEN n_data.risk_score ELSE Q(1, 2)
    IN  [symbol     |-> n_symbol,
         signal     |-> IF Lt(risk_score, Q(4, 10)) THEN "bullish" ELSE "bearish",
         risk_score |-> risk_score]

\* lines 261-274
neighbor_signals_of(gd, ids, adj, node_idx) ==
    LET neighbors == FirstK(positive_positions(adj[node_idx]), 5)
    IN  [k \in 1..Len(neighbors) |-> neighbor_signal(gd, ids[neighbors[k]])]

\* lines 278-283
base_penalty(cluster_risk, contagion_risk) ==
    IF cluster_risk = "Critical" THEN Add(Q(5, 100), Mul(contagion_risk, Q(5, 100)))
    ELSE IF cluster_risk = "High" THEN Add(Q(3, 100), Mul(contagion_risk, Q(3, 100)))
    ELSE Mul(contagion_risk, Q(2, 100))

\* variant: the surcharge is added when half of the neighbours are bearish
surcharge_from_half(signals) ==
    LET bearish_count == Cardinality({k \in 1..Len(signals) : signals[k].signal = "bearish"})
    IN  IF 2 * bearish_count >= Len(signals) THEN Mul(Q(2, 100), I(bearish_count)) ELSE I(0)

\* lines 286-288
bearish_surcharge(signals) ==
    LET bearish_count == Cardinality({k \in 1..Len(signals) : signals[k].signal = "bearish"})
    IN  IF 2 * bearish_count > Len(signals) THEN Mul(Q(2, 100), I(bearish_count)) ELSE I(0)

\* lines 276-298
risk_result(centrality, cluster, contagion_risk, signals) ==
    LET risk_penalty == Add(base_penalty(cluster.risk, contagion_risk),
                            bearish_surcharge(signals))
    IN  [network_risk_penalty |-> Round(risk_penalty, 4),
         risk_adjustment      |-> Round(Sub(I(1), risk_penalty), 4),
         centrality_score     |-> Round(centrality, 3),
         cluster_name         |-> cluster.name,
         cluster_risk         |-> cluster.risk,
         neighbor_signals     |-> signals,
         contagion_risk       |-> Round(contagion_risk, 3)]

\* variant: a symbol outside a loaded graph still gets the cluster lookup
risk_with_cluster_lookup(gd, ids, adj, symbol) ==
    IF ~gd.loaded THEN TopologyDefault
    ELSE IF ~InList(ids, upper(symbol))
    THEN [TopologyDefault EXCEPT !.cluster_name = find_cluster(gd, upper(symbol)).name]
    ELSE Only({risk_result(degree_centrality(ids, adj, node_idx), cluster,
                           contagion_risk, signals)
               : node_idx       \in {index(ids, upper(symbol))},
                 cluster        \in {find_cluster(gd, upper(symbol))},
                 contagion_risk \in {contagion_of(adj)},
                 signals        \in {neighbor_signals_of(gd, ids, adj,
                                                         index(ids, upper(symbol)))}})

\* lines 192-303.  The graph is loaded with its adjacency matrix (lines 150-152,
\* 165), so the branches for a missing matrix (lines 233, 258) are never taken.
compute_laplacian_risk(gd, ids, adj, symbol) ==
    IF ~gd.loaded \/ ~InList(ids, upper(symbol)) THEN TopologyDefault
    ELSE Only({risk_result(degree_centrality(ids, adj, node_idx), cluster,
                           contagion_risk, signals)
               : node_idx       \in {index(ids, upper(symbol))},
                 cluster        \in {find_cluster(gd, upper(symbol))},
                 contagion_risk \in {contagion_of(adj)},
                 signals        \in {neighbor_signals_of(gd, ids, adj,
                                                         index(ids, upper(symbol)))}})

-----------------------------------------------------------------------------
(* EnsembleOrchestrator *)

\* lines 395-399, in hundredths
WeightQuant == 50
WeightTopology == 30
WeightSentiment == 20

\* variant: the contagion risk is raised without the cap at 1.0
apply_shock_uncapped(risk) ==
    Only({[topology_risk EXCEPT
        !.risk_adjustment      = Mul(@, Q(9, 10)),
        !.network_risk_penalty = Add(@, Q(1, 10)),
        !.contagion_risk       = Add(@, Q(3, 10))]
          : topology_risk \in {risk}})

\* variant: the shock raises the penalty and leaves the adjustment as it is
shock_without_discount(risk) ==
    Only({[topology_risk EXCEPT
        !.network_risk_penalty = Add(@, Q(1, 10)),
        !.contagion_risk       = PyMin(Add(@, Q(3, 10)), I(1))]
          : topology_risk \in {risk}})

\* lines 432-435
apply_shock(risk) ==
    Only({[topology_risk EXCEPT
        !.risk_adjustment      = Mul(@, Q(9, 10)),
        !.network_risk_penalty = Add(@, Q(1, 10)),
        !.contagion_risk       = PyMin(Add(@, Q(3, 10)), I(1))]
          : topology_risk \in {risk}})

\* variant: the weights of the topology and the sentiment agent are exchanged
confidence_with_weights_exchanged(quant_forecast, topology_risk, sentiment) ==
    LET quant_conf     == quant_forecast.confidence
        topology_conf  == Mul(Sub(I(1), topology_risk.network_risk_penalty), I(100))
        sentiment_conf == sentiment.confidence
    IN  Add(Add(Mul(quant_conf, Q(WeightQuant, 100)),
                Mul(topology_conf, Q(WeightSentiment, 100))),
            Mul(sentiment_conf, Q(WeightTopology, 100)))

\* lines 448-456
ensemble_confidence_of(quant_forecast, topology_risk, sentiment) ==
    LET quant_conf     == quant_forecast.confidence
        topology_conf  == Mul(Sub(I(1), topology_risk.network_risk_penalty), I(100))
        sentiment_conf == sentiment.confidence
    IN  Add(Add(Mul(quant_conf, Q(WeightQuant, 100)),
                Mul(topology_conf, Q(WeightTopology, 100))),
            Mul(sentiment_conf, Q(WeightSentiment, 100)))

\* variant: the thresholds are at 2 percent
direction_at_two_percent(price_change_pct) ==
    IF Gt(price_change_pct, I(2)) THEN "UP"
    ELSE IF Lt(price_change_pct, I(-2)) THEN "DOWN"
    ELSE "SIDEWAYS"

\* lines 460-465
final_direction_of(price_change_pct) ==
    IF Gt(price_change_pct, I(1)) THEN "UP"
    ELSE IF Lt(price_change_pct, I(-1)) THEN "DOWN"
    ELSE "SIDEWAYS"

\* lines 437-527: the fusion of the three agents' outputs; time is datetime.now()
fuse(quant_forecast, topology_risk, sentiment, symbol, current_price, shock_simulation, time) ==
    LET base_predicted     == quant_forecast.predicted_price
        topology_adjusted  == Mul(base_predicted, topology_risk.risk_adjustment)
        final_predicted    == Mul(topology_adjusted, sentiment.sentiment_multiplier)
        ensemble_confidence == ensemble_confidence_of(quant_forecast, topology_risk, sentiment)
        price_change_pct   == Mul(Div(Sub(final_predicted, current_price), current_price), I(100))
        topology_adjustment ==
            Mul(Div(Sub(topology_adjusted, base_predicted), base_predicted), I(100))
        sentiment_adjustment ==
            IF Gt(topology_adjusted, I(0))
            THEN Mul(Div(Sub(final_predicted, topology_adjusted), topology_adjusted), I(100))
            ELSE I(0)
        naive_pct == Mul(Div(Sub(base_predicted, current_price), current_price), I(100))
    IN  [symbol               |-> upper(symbol),
         timestamp            |-> time,
         current_price        |-> current_price,
         weighted_prediction  |-> Round(final_predicted, 2),
         confidence_score     |-> Round(ensemble_confidence, 1),
         direction            |-> final_direction_of(price_change_pct),
         price_change_percent |-> Round(price_change_pct, 2),
         components |->
            [quant_agent |->
                [base_forecast  |-> Round(base_predicted, 2),
                 confidence     |-> quant_forecast.confidence,
                 direction      |-> quant_forecast.direction,
                 volatility     |-> quant_forecast.volatility,
                 trend_strength |-> quant_forecast.trend_strength,
                 weight         |-> Q(WeightQuant, 100)],
             topology_agent |->
                [risk_adjustment      |-> topology_risk.risk_adjustment,
                 adjusted_price       |-> Round(topology_adjusted, 2),
                 network_risk_penalty |-> topology_risk.network_risk_penalty,
                 cluster_name         |-> topology_risk.cluster_name,
                 cluster_risk         |-> topology_risk.cluster_risk,
                 centrality_score     |-> topology_risk.centrality_score,
                 contagion_risk       |-> topology_risk.contagion_risk,
                 neighbor_signals     |-> topology_risk.neighbor_signals,
                 weight               |-> Q(WeightTopology, 100)],
             sentiment_agent |->
                [sentiment_multiplier |-> sentiment.sentiment_multiplier,
                 consensus_score      |-> sentiment.consensus_score,
                 sentiment_label      |-> sentiment.sentiment_label,
                 bull_bear_ratio      |-> sentiment.bull_bear_ratio,
                 confidence           |-> sentiment.confidence,
                 weight               |-> Q(WeightSentiment, 100)]],
         comparison |->
            [lstm_base                |-> Round(base_predicted, 2),
             agentic_adjusted         |-> Round(final_predicted, 2),
             topology_adjustment_pct  |-> Round(topology_adjustment, 2),
             sentiment_adjustment_pct |-> Round(sentiment_adjustment, 2),
             total_adjustment_pct     |-> Round(Sub(price_change_pct, naive_pct), 2)],
         shock_simulation_active |-> shock_simulation]

\* lines 427-527: the result assembled on a cache miss
assemble(md, gd, ids, adj, symbol, current_price, sentiment_data, shock_simulation, time) ==
    Only({fuse(quant_forecast, topology_risk, sentiment,
               symbol, current_price, shock_simulation, time)
          : quant_forecast \in {get_base_forecast(md, symbol, current_price)},
            topology_risk  \in {IF shock_simulation
                                THEN apply_shock(compute_laplacian_risk(gd, ids, adj, symbol))
                                ELSE compute_laplacian_risk(gd, ids, adj, symbol)},
            sentiment      \in {get_sentiment_multiplier(sentiment_data)}})

-----------------------------------------------------------------------------
(* ensemble_cache = TTLCache(maxsize, ttl), line 25 *)

\* time-to-live in seconds
ttl == 300

\* Capacity of the cache.  The program's value is 100; the model scales it
\* down so that a capacity eviction is reachable with a handful of keys.
maxsize == 1

\* The cache is the sequence of its entries [key, value, expires] from least
\* to most recently used.  An expired entry stays in the sequence until the
\* next store (TTLCache.expire runs inside __setitem__).

\* variant: the key leaves the shock flag out
key_without_flag(symbol, current_price, shock_simulation) ==
    <<symbol, current_price>>

\* line 420: the f-string is injective on (symbol, price, flag)
cache_key(symbol, current_price, shock_simulation) ==
    <<symbol, current_price, shock_simulation>>

HasKey(cache, key) == \E i \in 1..Len(cache) : cache[i].key = key

EntryOf(cache, key) == cache[CHOOSE i \in 1..Len(cache) : cache[i].key = key]

Without(cache, key) == SelectSeq(cache, LAMBDA e : e.key # key)

\* variant: membership ignores the expiry time
contains_ignoring_ttl(cache, key, time) == HasKey(cache, key)

\* TTLCache.__contains__: present and time < expires; no reordering
cache_contains(cache, key, time) ==
    HasKey(cache, key) /\ time < EntryOf(cache, key).expires

\* TTLCache.__getitem__ succeeds exactly on an unexpired entry; otherwise
\* __missing__ raises KeyError
getitem_raises(cache, key, time) == ~cache_contains(cache, key, time)

\* the link is moved to the most recently used end
cache_after_getitem(cache, key) ==
    IF HasKey(cache, key) THEN Without(cache, key) \o <<EntryOf(cache, key)>> ELSE cache

\* TTLCache.expire(time)
expire(cache, time) == SelectSeq(cache, LAMBDA e : time < e.expires)

\* Cache.__setitem__ for a new key: popitem() while the cache is full
RECURSIVE make_room(_)
make_room(cache) == IF Len(cache) >= maxsize THEN make_room(Tail(cache)) ELSE cache

\* variant: the entry is stored already expired
cache_setitem_expired(cache, key, value, time) ==
    LET live == expire(cache, time)
        kept == IF HasKey(live, key) THEN Without(live, key) ELSE make_room(live)
    IN  kept \o <<[key |-> key, value |-> value, expires |-> time]>>

\* TTLCache.__setitem__
cache_setitem(cache, key, value, time) ==
    LET live == expire(cache, time)
        kept == IF HasKey(live, key) THEN Without(live, key) ELSE make_room(live)
    IN  kept \o <<[key |-> key, value |-> value, expires |-> time + ttl]>>

-----------------------------------------------------------------------------
(* Requests *)

VARIABLES
    ensemble_cache, \* the TTLCache
    now,            \* the clock, in seconds (time.monotonic and datetime.now)
    calls,          \* the predict call each request handler is running
    started,        \* number of predict calls made so far
    last_store,     \* history: per key, the last result stored and when
    evicted,        \* history: keys dropped for capacity since their last store
    input, output   \* arguments and return value of a direct agent call

vars == <<market_data, graph_data, nodes, adjacency_matrix, ensemble_cache, now,
          calls, started, last_store, evicted, input, output>>

agents == <<market_data, graph_data, nodes, adjacency_matrix>>

\* request handlers
Procs == {"r1", "r2"}

\* bounds of the exploration
MaxCalls == 3
TickStep == 150
MaxClock == 450

-----------------------------------------------------------------------------
(* Data sets.  Weights, prices and confidences are chosen so that the exact *)
(* rational arithmetic stays within TLC's 32-bit integers.                  *)

GraphSynth ==
    GraphData(<<Node("AAA", TRUE, Q(6, 10), TRUE, 1),
                Node("BBB", TRUE, Q(3, 10), TRUE, 1),
                Node("CCC", TRUE, Q(5, 10), TRUE, 2)>>,
              <<>>,
              <<Cluster("Banking", "Critical", {"AAA", "BBB"}),
                Cluster("IT", "High", {"CCC"})>>)

GraphLinks ==
    GraphData(<<Node("AAA", TRUE, Q(6, 10), TRUE, 1),
                Node("BBB", FALSE, I(0), TRUE, 1),
                Node("CCC", TRUE, Q(2, 10), TRUE, 2)>>,
              <<Link("AAA", "BBB", FALSE, I(0)),
                Link("BBB", "CCC", TRUE, I(1)),
                Link("BBB", "QQQ", TRUE, I(5))>>,
              <<>>)

GraphSingle ==
    GraphData(<<Node("AAA", TRUE, Q(6, 10), TRUE, 1)>>, <<>>,
              <<Cluster("Solo", "High", {"AAA"})>>)

GraphPair ==
    GraphData(<<Node("AAA", TRUE, Q(1, 10), TRUE, 1),
                Node("BBB", TRUE, Q(9, 10), TRUE, 2)>>,
              <<Link("BBB", "AAA", TRUE, Q(5, 10))>>,
              <<Cluster("Energy", "Low", {"AAA"}),
                Cluster("Metals", "Critical", {"BBB", "AAA"})>>)

GraphK4 ==
    GraphData(<<Node("AAA", TRUE, Q(6, 10), TRUE, 3),
                Node("BBB", TRUE, Q(7, 10), TRUE, 3),
                Node("CCC", TRUE, Q(8, 10), TRUE, 3),
                Node("DDD", TRUE, Q(4, 10), TRUE, 3)>>,
              <<>>,
              <<Cluster("Pharma", "High", {"DDD"})>>)

GraphLoops ==
    GraphData(<<Node("AAA", TRUE, Q(6, 10), TRUE, 1),
                Node("BBB", TRUE, Q(3, 10), TRUE, 1),
                Node("CCC", TRUE, Q(5, 10), TRUE, 2)>>,
              <<Link("AAA", "BBB", TRUE, Q(5, 10)),
                Link("AAA", "BBB", TRUE, I(1)),
                Link("BBB", "CCC", TRUE, I(1)),
                Link("AAA", "AAA", TRUE, I(1)),
                Link("BBB", "BBB", TRUE, Q(5, 10))>>,
              <<Cluster("Banking", "Critical", {"CCC"})>>)

\* one link of weight 4: Fiedler value 8, contagion 0.8
GraphHeavy ==
    GraphData(<<Node("AAA", TRUE, Q(2, 10), TRUE, 1),
                Node("CCC", TRUE, Q(3, 10), TRUE, 1)>>,
              <<Link("AAA", "CCC", TRUE, I(4))>>,
              <<Cluster("Autos", "Moderate", {"AAA", "CCC"})>>)

\* three links of weight 0.07: Fiedler value 0.21, contagion 0.021
GraphFine ==
    GraphData(<<Node("AAA", TRUE, Q(6, 10), TRUE, 1),
                Node("BBB", TRUE, Q(3, 10), TRUE, 1),
                Node("CCC", TRUE, Q(2, 10), TRUE, 2)>>,
              <<Link("AAA", "BBB", TRUE, Q(7, 100)),
                Link("BBB", "CCC", TRUE, Q(7, 100)),
                Link("CCC", "AAA", TRUE, Q(7, 100))>>,
              <<Cluster("Telecom", "High", {"AAA"}),
                Cluster("Media", "Critical", {"BBB"})>>)

\* a hub with six neighbours, of which the first five are three bearish and
\* two bullish
GraphStar ==
    GraphData(<<Node("HUB", TRUE, Q(5, 10), TRUE, 1),
                Node("LF1", TRUE, Q(6, 10), TRUE, 1),
                Node("LF2", TRUE, Q(4, 10), TRUE, 1),
                Node("LF3", FALSE, I(0), TRUE, 1),
                Node("LF4", TRUE, Q(3, 10), TRUE, 2),
                Node("LF5", TRUE, Q(1, 10), TRUE, 2),
                Node("LF6", TRUE, Q(2, 10), TRUE, 2)>>,
              <<Link("HUB", "LF1", TRUE, Q(1, 10)),
                Link("HUB", "LF2", TRUE, Q(1, 10)),
                Link("LF3", "HUB", TRUE, Q(1, 10)),
                Link("HUB", "LF4", TRUE, Q(1, 10)),
                Link("LF5", "HUB", TRUE, Q(1, 10)),
                Link("HUB", "LF6", TRUE, Q(1, 10))>>,
              <<Cluster("Exchanges", "Critical", {"HUB"})>>)

GraphFiles ==
    {NoGraph, GraphSynth, GraphLinks, GraphSingle, GraphPair, GraphK4, GraphLoops,
     GraphHeavy, GraphFine, GraphStar}

NoMarket == [loaded |-> FALSE, columns |-> <<>>]

MarketA ==
    [loaded  |-> TRUE,
     columns |-> [c \in {"AAA.NS", "BBB.NS", "CCC.NS", "DDD.NS"} |->
        CASE c = "AAA.NS" -> Column(TRUE, Rep(I(100), 20))
          [] c = "BBB.NS" -> Column(TRUE, Rep(I(0), 20))
          [] c = "CCC.NS" -> Column(TRUE, Rep(I(100), 19))
          [] c = "DDD.NS" -> Column(TRUE, Rep(I(100), 15)
                                \o <<I(104), I(106), I(108), I(110), I(112)>>)]]

MarketB ==
    [loaded  |-> TRUE,
     columns |-> [c \in {"AAA.NS", "BBB.NS", "CCC.NS", "DDD.NS"} |->
        CASE c = "AAA.NS" -> Column(TRUE, Rep(I(100), 10) \o <<NaN>> \o Rep(I(100), 9))
          [] c = "BBB.NS" -> Column(FALSE, Rep(I(0), 20))
          [] c = "CCC.NS" -> Column(TRUE, Rep(I(100), 15) \o Rep(I(0), 5))
          [] c = "DDD.NS" -> Column(TRUE, Rep(I(100), 16)
                                \o <<I(96), I(94), I(92), I(90), I(88)>>)]]

MarketFiles == {NoMarket, MarketA, MarketB}

Prices == {I(485), I(1000), I(2950)}

Directions == {"UP", "DOWN", "NEUTRAL", "BULLISH", "missing"}

Confidences == {I(-50), I(0), Q(98, 10), Q(1234, 100), I(50), I(80), I(100), I(150), I(1000)}

Payloads ==
    {Payload(sh, "missing", "missing", I(0)) : sh \in {"None", "empty", "no_news", "news_null"}}
    \cup {Payload("news", d, "num", c) : d \in Directions, c \in Confidences}
    \cup {Payload("news", d, k, I(0)) : d \in Directions, k \in {"missing", "str"}}

-----------------------------------------------------------------------------
(* predict, lines 401-532, one step per cache operation *)

Idle ==
    [pc |-> "idle", symbol |-> "", current_price |-> I(0), sentiment_data |-> NoPayload,
     shock_simulation |-> FALSE, result |-> <<>>, hit |-> FALSE,
     made_at |-> 0, finished_at |-> 0, seen |-> <<>>]

KeyOf(c) == cache_key(c.symbol, c.current_price, c.shock_simulation)

\* a request handler calls predict(symbol, current_price, sentiment_data, shock_simulation)
Start(p, symbol, current_price, sentiment_data, shock_simulation) ==
    /\ calls[p].pc \in {"idle", "done", "failed"}
    /\ started < MaxCalls
    /\ started' = started + 1
    /\ LET key == cache_key(symbol, current_price, shock_simulation)
       IN  calls' = [calls EXCEPT ![p] =
              [pc |-> "test", symbol |-> symbol, current_price |-> current_price,
               sentiment_data |-> sentiment_data, shock_simulation |-> shock_simulation,
               result |-> <<>>, hit |-> FALSE, made_at |-> now, finished_at |-> now,
               seen |-> IF key \in DOMAIN last_store
                        THEN <<[value   |-> last_store[key].value,
                                time    |-> last_store[key].time,
                                evicted |-> key \in evicted]>>
                        ELSE <<>>]]
    /\ UNCHANGED <<agents, ensemble_cache, now, last_store, evicted, input, output>>

\* line 423: if cache_key in ensemble_cache
Test(p) ==
    /\ calls[p].pc = "test"
    /\ calls' = [calls EXCEPT ![p].pc =
                    IF cache_contains(ensemble_cache, KeyOf(calls[p]), now)
                    THEN "read" ELSE "compute"]
    /\ UNCHANGED <<agents, ensemble_cache, now, started, last_store, evicted, input, output>>

\* line 424: return ensemble_cache[cache_key]; a KeyError leaves predict
Read(p) ==
    /\ calls[p].pc = "read"
    /\ LET key == KeyOf(calls[p])
       IN  /\ calls' = [calls EXCEPT ![p] =
                IF getitem_raises(ensemble_cache, key, now)
                THEN [@ EXCEPT !.pc = "failed", !.finished_at = now]
                ELSE [@ EXCEPT !.pc = "done", !.hit = TRUE, !.finished_at = now,
                               !.result = <<EntryOf(ensemble_cache, key).value>>]]
           /\ ensemble_cache' = cache_after_getitem(ensemble_cache, key)
    /\ UNCHANGED <<agents, now, started, last_store, evicted, input, output>>

\* lines 427-527
Compute(p) ==
    /\ calls[p].pc = "compute"
    /\ calls' = [calls EXCEPT ![p].pc = "store",
                    ![p].result = <<assemble(market_data, graph_data, nodes, adjacency_matrix,
                                             calls[p].symbol, calls[p].current_price,
                                             calls[p].sentiment_data,
                                             calls[p].shock_simulation, now)>>]
    /\ UNCHANGED <<agents, ensemble_cache, now, started, last_store, evicted, input, output>>

CacheKeys(cache) == {cache[i].key : i \in 1..Len(cache)}

\* line 530: ensemble_cache[cache_key] = result, with the history of stores
StoreAs(key, value) ==
    LET live  == expire(ensemble_cache, now)
        after == cache_setitem(ensemble_cache, key, value, now)
    IN  /\ ensemble_cache' = after
        /\ last_store' = [k \in DOMAIN last_store \cup {key} |->
                             IF k = key THEN [value |-> value, time |-> now]
                             ELSE last_store[k]]
        /\ evicted' = (evicted \cup (CacheKeys(live) \ CacheKeys(after))) \ {key}

\* lines 530-532
Store(p) ==
    /\ calls[p].pc = "store"
    /\ StoreAs(KeyOf(calls[p]), calls[p].result[1])
    /\ calls' = [calls EXCEPT ![p].pc = "done", ![p].finished_at = now]
    /\ UNCHANGED <<agents, now, started, input, output>>

\* time passes
Tick ==
    /\ now + TickStep <= MaxClock
    /\ now' = now + TickStep
    /\ UNCHANGED <<agents, ensemble_cache, calls, started, last_store, evicted, input, output>>

\* the orchestrator singleton (line 536) over the given data files
Constructed(gd, md) ==
    /\ market_data = md
    /\ graph_data = gd
    /\ nodes = node_ids(gd)
    /\ adjacency_matrix = build_adjacency_matrix(gd)
    /\ ensemble_cache = <<>>
    /\ now = 0
    /\ calls = [p \in Procs |-> Idle]
    /\ started = 0
    /\ last_store = <<>>
    /\ evicted = {}

\* the requests of the cache specifications: three keys, one of them with two
\* different sentiment payloads
CallInputs ==
    {<<"AAA", I(1000), NoPayload, FALSE>>,
     <<"AAA", I(1000), Payload("news", "UP", "num", I(80)), FALSE>>,
     <<"AAA", I(1000), NoPayload, TRUE>>,
     <<"ZZZ", I(1000), NoPayload, FALSE>>}

Init ==
    /\ Constructed(GraphSynth, MarketA)
    /\ input = <<>>
    /\ output = <<>>

SequentialRequest(p) == \E c \in CallInputs : Start(p, c[1], c[2], c[3], c[4])

\* the requests of the concurrent specification: two keys
RaceInputs ==
    {<<"AAA", I(1000), NoPayload, FALSE>>,
     <<"ZZZ", I(1000), NoPayload, FALSE>>}

ConcurrentRequest(p) == \E c \in RaceInputs : Start(p, c[1], c[2], c[3], c[4])

\* requests handled concurrently (spec section 5)
Next ==
    \/ \E p \in Procs : ConcurrentRequest(p)
    \/ \E p \in Procs : Test(p)
    \/ \E p \in Procs : Read(p)
    \/ \E p \in Procs : Compute(p)
    \/ \E p \in Procs : Store(p)
    \/ Tick

Spec == Init /\ [][Next]_vars

\* requests handled one after the other by one handler: a predict call is made
\* only when the previous one has returned (the router's event loop runs
\* predict without yielding)
NextSeq ==
    \/ SequentialRequest("r1")
    \/ Test("r1")
    \/ Read("r1")
    \/ Compute("r1")
    \/ Store("r1")
    \/ Tick

SpecSeq == Init /\ [][NextSeq]_vars

-----------------------------------------------------------------------------
(* Direct calls of the three agents' methods on an orchestrator built over  *)
(* any of the data files.                                                   *)

InitAgents ==
    /\ \E gd \in GraphFiles, md \in MarketFiles : Constructed(gd, md)
    /\ input = <<>>
    /\ output = <<>>

\* quant_agent.get_base_forecast(symbol, current_price)
CallForecast(symbol, current_price) ==
    /\ input = <<>>
    /\ input' = <<[method |-> "get_base_forecast", symbol |-> symbol,
                   current_price |-> current_price]>>
    /\ output' = <<get_base_forecast(market_data, symbol, current_price)>>
    /\ UNCHANGED <<agents, ensemble_cache, now, calls, started, last_store, evicted>>

\* topology_agent.compute_laplacian_risk(symbol)
CallTopology(symbol) ==
    /\ input = <<>>
    /\ input' = <<[method |-> "compute_laplacian_risk", symbol |-> symbol]>>
    /\ output' = <<compute_laplacian_risk(graph_data, nodes, adjacency_matrix, symbol)>>
    /\ UNCHANGED <<agents, ensemble_cache, now, calls, started, last_store, evicted>>

\* sentiment_agent.get_sentiment_multiplier(sentiment_data)
CallSentiment(sentiment_data) ==
    /\ input = <<>>
    /\ input' = <<[method |-> "get_sentiment_multiplier", sentiment_data |-> sentiment_data]>>
    /\ output' = <<get_sentiment_multiplier(sentiment_data)>>
    /\ UNCHANGED <<agents, ensemble_cache, now, calls, started, last_store, evicted>>

NextAgents ==
    \/ \E symbol \in Symbols, current_price \in Prices : CallForecast(symbol, current_price)
    \/ \E symbol \in Symbols : CallTopology(symbol)
    \/ \E sentiment_data \in Payloads : CallSentiment(sentiment_data)

SpecAgents == InitAgents /\ [][NextAgents]_vars

Called(method) == input # <<>> /\ input[1].method = method

-----------------------------------------------------------------------------
(* predict run to completion at one clock reading, for a request that is    *)
(* repeated with and without the shock flag.                                *)

Request(symbol, current_price, sentiment_data) ==
    <<[method |-> "predict", symbol |-> symbol, current_price |-> current_price,
       sentiment_data |-> sentiment_data]>>

\* the payloads of the predict requests
PredictPayloads ==
    {NoPayload,
     Payload("news", "UP", "num", I(80)),
     Payload("news", "UP", "num", I(1000)),
     Payload("news", "DOWN", "num", I(-50))}

\* The payload with confidence 9.8 gives the multiplier 0.9902; it goes with
\* the symbol outside the data files, whose forecast and risk are the defaults.
PredictRequests ==
    {Request(symbol, current_price, sentiment_data)
        : symbol \in {"AAA", "BBB", "CCC", "ZZZ"},
          current_price \in {I(100), I(1000)},
          sentiment_data \in PredictPayloads}
    \cup {Request("ZZZ", current_price, Payload("news", "DOWN", "num", Q(98, 10)))
            : current_price \in {I(1000), I(2950)}}
    \cup {Request("ZZZ", I(2950), NoPayload)}

InitPredict ==
    /\ \E gd \in GraphFiles, md \in MarketFiles : Constructed(gd, md)
    /\ input \in PredictRequests
    /\ output = <<>>

\* lines 420-532
Predict(symbol, current_price, sentiment_data, shock_simulation) ==
    /\ started < MaxCalls
    /\ started' = started + 1
    /\ LET key == cache_key(symbol, current_price, shock_simulation)
       IN  IF cache_contains(ensemble_cache, key, now)
           THEN /\ output' = <<EntryOf(ensemble_cache, key).value>>
                /\ ensemble_cache' = cache_after_getitem(ensemble_cache, key)
                /\ UNCHANGED <<last_store, evicted>>
           ELSE \E result \in {assemble(market_data, graph_data, nodes, adjacency_matrix,
                                        symbol, current_price, sentiment_data,
                                        shock_simulation, now)} :
                    /\ output' = <<result>>
                    /\ StoreAs(key, result)
    /\ UNCHANGED <<agents, now, calls, input>>

NextPredict ==
    \E shock_simulation \in BOOLEAN :
        Predict(input[1].symbol, input[1].current_price, input[1].sentiment_data,
                shock_simulation)

SpecPredict == InitPredict /\ [][NextPredict]_vars


-----------------------------------------------------------------------------
(* Properties *)

InRange(x, lo, hi) == Le(lo, x) /\ Le(x, hi)

\* the number of observations of a column: its non-empty cells
Observations(col) == Cardinality({i \in 1..Len(col.values) : ~IsNaN(col.values[i])})

\* the classification of a percent change: above 1 UP, below -1 DOWN, else SIDEWAYS
Classify(pct) ==
    IF Gt(pct, I(1)) THEN "UP" ELSE IF Lt(pct, I(-1)) THEN "DOWN" ELSE "SIDEWAYS"

C2_ExpiredEntryIsAbsent ==
    \A p \in Procs :
        LET c == calls[p]
        IN  (c.pc # "idle" /\ c.seen # <<>> /\ c.made_at - c.seen[1].time > ttl)
            => /\ c.pc \in {"test", "compute", "store", "done"}
               /\ ~c.hit
               /\ c.pc \in {"store", "done"} =>
                    /\ c.result # <<c.seen[1].value>>
                    /\ c.result[1].timestamp >= c.made_at
                    /\ c.result[1] = assemble(market_data, graph_data, nodes,
                                              adjacency_matrix, c.symbol, c.current_price,
                                              c.sentiment_data, c.shock_simulation,
                                              c.result[1].timestamp)
               /\ c.pc = "done" =>
                    /\ HasKey(ensemble_cache, KeyOf(c))
                    /\ EntryOf(ensemble_cache, KeyOf(c)).value = c.result[1]
                    /\ EntryOf(ensemble_cache, KeyOf(c)).expires = c.finished_at + ttl

\* a call made after the expiry has recomputed and stored its result
C2_Witness ==
    LET c == calls["r1"]
    IN  /\ c.pc = "done" /\ ~c.hit
        /\ c.seen # <<>> /\ c.made_at - c.seen[1].time > ttl
        /\ c.result[1].timestamp > c.seen[1].value.timestamp
        /\ HasKey(ensemble_cache, KeyOf(c))
        /\ EntryOf(ensemble_cache, KeyOf(c)).value = c.result[1]

\* C3 (Spec): in every interleaving of concurrent predict calls with clock
\* advances and evictions no call fails on the cache, and a call that has
\* returned holds an EnsembleResult for its own key.
C3_NoCallFailsOnCache ==
    \A p \in Procs :
        LET c == calls[p]
        IN  /\ c.pc # "failed"
            /\ c.pc = "done" =>
                /\ c.result # <<>>
                /\ c.result[1].symbol = upper(c.symbol)
                /\ c.result[1].current_price = c.current_price
                /\ c.result[1].shock_simulation_active = c.shock_simulation

\* C4 (SpecPredict): for the same symbol, price and payload, the result computed
\* with the shock flag has a riskAdjustment 0.9 times that of the result
\* computed without it (strictly smaller), a networkRiskPenalty 0.1 larger, a
\* contagionRisk of min(contagionRisk + 0.3, 1.0), and its adjusted price,
\* fused price and confidence are computed from the changed values.
C4_ShockAdjustsTopology ==
    LET plain   == cache_key(input[1].symbol, input[1].current_price, FALSE)
        shocked == cache_key(input[1].symbol, input[1].current_price, TRUE)
    IN  (Called("predict") /\ plain \in DOMAIN last_store /\ shocked \in DOMAIN last_store)
        => LET r    == last_store[shocked].value
               a    == last_store[plain].value.components.topology_agent
               b    == r.components.topology_agent
               base == get_base_forecast(market_data, input[1].symbol,
                                         input[1].current_price).predicted_price
               raised == Add(a.contagion_risk, Q(3, 10))
           IN  /\ b.risk_adjustment = Mul(a.risk_adjustment, Q(9, 10))
               /\ Lt(b.risk_adjustment, a.risk_adjustment)
               /\ b.network_risk_penalty = Add(a.network_risk_penalty, Q(1, 10))
               /\ Gt(b.network_risk_penalty, a.network_risk_penalty)
               /\ b.contagion_risk = IF Lt(raised, I(1)) THEN raised ELSE I(1)
               /\ b.adjusted_price = Round(Mul(base, b.risk_adjustment), 2)
               /\ r.weighted_prediction =
                    Round(Mul(Mul(base, b.risk_adjustment),
                              r.components.sentiment_agent.sentiment_multiplier), 2)
               /\ r.confidence_score =
                    Round(Add(Add(Mul(r.components.quant_agent.confidence, Q(1, 2)),
                                  Mul(Mul(Sub(I(1), b.network_risk_penalty), I(100)),
                                      Q(3, 10))),
                              Mul(r.components.sentiment_agent.confidence, Q(1, 5))), 1)

\* both results are there for a node whose raised contagion risk hits the cap
C4_Witness ==
    LET plain   == cache_key(input[1].symbol, input[1].current_price, FALSE)
        shocked == cache_key(input[1].symbol, input[1].current_price, TRUE)
    IN  /\ Called("predict")
        /\ plain \in DOMAIN last_store /\ shocked \in DOMAIN last_store
        /\ last_store[plain].value.components.topology_agent.contagion_risk = Q(8, 10)
        /\ last_store[shocked].value.components.topology_agent.contagion_risk = I(1)
        /\ last_store[shocked].value.shock_simulation_active

\* C5 (SpecAgents): for a symbol that is no node of the graph, and for every
\* symbol when no graph is loaded, compute_laplacian_risk returns the neutral
\* default: penalty 0, adjustment 1.0, centrality 0.5, cluster "Unknown" /
\* "Moderate", no neighbour signals, contagion 0.0.
C5_NeutralDefault ==
    (/\ Called("compute_laplacian_risk")
     /\ \/ ~graph_data.loaded
        \/ \A i \in 1..Len(graph_data.nodes) :
                graph_data.nodes[i].id # upper(input[1].symbol))
    => output = <<[network_risk_penalty |-> I(0),
                   risk_adjustment      |-> I(1),
                   centrality_score     |-> Q(1, 2),
                   cluster_name         |-> "Unknown",
                   cluster_risk         |-> "Moderate",
                   neighbor_signals     |-> <<>>,
                   contagion_risk       |-> I(0)]>>

\* the default is returned for a symbol outside a loaded graph
C5_Witness ==
    /\ Called("compute_laplacian_risk")
    /\ graph_data.loaded /\ Len(graph_data.nodes) > 1
    /\ \A i \in 1..Len(graph_data.nodes) : graph_data.nodes[i].id # upper(input[1].symbol)
    /\ output[1].cluster_name = "Unknown"
    /\ output[1].centrality_score = Q(1, 2)

\* C6 (SpecAgents): for a symbol whose price series is absent or has fewer than
\* 20 observations, at every current price, get_base_forecast returns the
\* fallback forecast (price x 1.02, UP, confidence 65, volatility 0.02, trend
\* strength 0.5, method "fallback"); a price series of exactly 20 observations
\* is not a fallback case.
C6_FallbackBelow20 ==
    Called("get_base_forecast") =>
        LET col     == upper(input[1].symbol) \o ".NS"
            present == market_data.loaded /\ col \in DOMAIN market_data.columns
        IN  /\ (~present \/ Observations(market_data.columns[col]) < 20)
                => output = <<[base_price      |-> input[1].current_price,
                               predicted_price |-> Mul(input[1].current_price, Q(102, 100)),
                               direction       |-> "UP",
                               confidence      |-> I(65),
                               volatility      |-> VolLiteral(Q(2, 100)),
                               trend_strength  |-> Q(1, 2),
                               method          |-> "fallback"]>>
            /\ (/\ present
                /\ market_data.columns[col].numeric
                /\ Observations(market_data.columns[col]) = 20)
                => output[1].method # "fallback"

\* the fallback is returned for a series of 20 cells of which one is empty
C6_Witness ==
    LET col == upper(input[1].symbol) \o ".NS"
    IN  /\ Called("get_base_forecast")
        /\ market_data.loaded /\ col \in DOMAIN market_data.columns
        /\ Len(market_data.columns[col].values) = 20
        /\ Observations(market_data.columns[col]) = 19
        /\ output[1].method = "fallback"
        /\ output[1].predicted_price = Mul(input[1].current_price, Q(102, 100))

\* C7 (SpecAgents): when the 20-period or the 5-period moving average of a
\* series of at least 20 observations is zero, get_base_forecast returns the
\* fallback forecast (method "fallback", price x 1.02, UP, confidence 65).
C7_ZeroAverageFallsBack ==
    LET col    == upper(input[1].symbol) \o ".NS"
        prices == dropna(market_data.columns[col])
    IN  (/\ Called("get_base_forecast")
         /\ market_data.loaded /\ col \in DOMAIN market_data.columns
         /\ market_data.columns[col].numeric
         /\ Len(prices) >= 20
         /\ \/ mean(LastK(prices, 20)) = I(0)
            \/ mean(LastK(prices, 5)) = I(0))
        => /\ output[1].method = "fallback"
           /\ output[1].predicted_price = Mul(input[1].current_price, Q(102, 100))
           /\ output[1].direction = "UP"
           /\ output[1].confidence = I(65)

\* the multiplier 1 + 0.1 c/100 (UP), 1 - 0.1 c/100 (DOWN), 1.0 (otherwise)
PlainMultiplier(direction, c) ==
    IF direction = "UP" THEN Add(I(1), Div(Mul(Q(1, 10), c), I(100)))
    ELSE IF direction = "DOWN" THEN Sub(I(1), Div(Mul(Q(1, 10), c), I(100)))
    ELSE I(1)

\* C8 as stated (SpecAgents): the sentiment multiplier lies in [0.9, 1.1] for
\* every payload; for a confidence c in [0,100] it equals 1 + 0.1 c/100 (UP),
\* 1 - 0.1 c/100 (DOWN), 1.0 (otherwise), and it is 1.0 without a payload.
C8_MultiplierExact ==
    Called("get_sentiment_multiplier") =>
        LET sd == input[1].sentiment_data
            m  == output[1].sentiment_multiplier
        IN  /\ InRange(m, Q(9, 10), Q(11, 10))
            /\ sd.shape \in {"None", "empty"} => m = I(1)
            /\ (sd.shape = "news" /\ sd.conf_kind = "num" /\ InRange(sd.conf, I(0), I(100)))
                => m = PlainMultiplier(sd.direction, sd.conf)

\* C8 amended (SpecAgents): the sentiment multiplier lies in [0.9, 1.1] for
\* every payload; for a confidence c in [0,100] it equals 1 + 0.1 c/100 (UP),
\* 1 - 0.1 c/100 (DOWN), 1.0 (otherwise) rounded to four decimals, and it is
\* 1.0 without a payload.
C8_MultiplierRounded ==
    Called("get_sentiment_multiplier") =>
        LET sd == input[1].sentiment_data
            m  == output[1].sentiment_multiplier
        IN  /\ InRange(m, Q(9, 10), Q(11, 10))
            /\ sd.shape \in {"None", "empty"} => m = I(1)
            /\ (sd.shape = "news" /\ sd.conf_kind = "num" /\ InRange(sd.conf, I(0), I(100)))
                => m = Round(PlainMultiplier(sd.direction, sd.conf), 4)

\* direction UP with confidence 12.34: 1.01234 is returned as 1.0123
C8_Witness ==
    /\ Called("get_sentiment_multiplier")
    /\ input[1].sentiment_data = Payload("news", "UP", "num", Q(1234, 100))
    /\ output[1].sentiment_multiplier = Q(10123, 10000)

\* C9 (SpecPredict): in every EnsembleResult the sentiment agent's confidence
\* lies in [0,100] whatever the payload carries, and so does the ensemble
\* confidence score.
C9_ConfidenceInRange ==
    (Called("predict") /\ output # <<>>)
    => /\ InRange(output[1].components.sentiment_agent.confidence, I(0), I(100))
       /\ InRange(output[1].confidence_score, I(0), I(100))

\* C10 as stated (SpecPredict): the direction of every EnsembleResult is the
\* classification of the percent change it reports: UP above 1, DOWN below -1,
\* SIDEWAYS otherwise, so SIDEWAYS at a reported 1.0 or -1.0.
C10_DirectionOfReported ==
    (Called("predict") /\ output # <<>>)
    => output[1].direction = Classify(output[1].price_change_percent)

\* C10 amended (SpecPredict): the direction of every EnsembleResult is the
\* classification of the unrounded percent change of the fused price, and the
\* reported percent change is that value rounded to two decimals.
C10_DirectionOfUnrounded ==
    (Called("predict") /\ output # <<>>)
    => LET r     == output[1]
           base  == get_base_forecast(market_data, input[1].symbol,
                                      input[1].current_price).predicted_price
           final == Mul(Mul(base, r.components.topology_agent.risk_adjustment),
                        r.components.sentiment_agent.sentiment_multiplier)
           pct   == Mul(Div(Sub(final, r.current_price), r.current_price), I(100))
       IN  /\ r.direction = Classify(pct)
           /\ r.price_change_percent = Round(pct, 2)

\* a result reporting exactly 1.0 percent with direction UP
C10_Witness ==
    /\ Called("predict") /\ output # <<>>
    /\ output[1].price_change_percent = I(1)
    /\ output[1].direction = "UP"


\* the fused price and confidence of a result, from its components and the
\* forecaster's predicted price: price x adjustment x multiplier and
\* 0.50 qc + 0.30 (1 - penalty) 100 + 0.20 sc
FusedPrice(r, base) ==
    Mul(Mul(base, r.components.topology_agent.risk_adjustment),
        r.components.sentiment_agent.sentiment_multiplier)

FusedConfidence(r) ==
    Add(Add(Mul(r.components.quant_agent.confidence, Q(1, 2)),
            Mul(Mul(Sub(I(1), r.components.topology_agent.network_risk_penalty), I(100)),
                Q(3, 10))),
        Mul(r.components.sentiment_agent.confidence, Q(1, 5)))

\* the request of the end-to-end example has been answered: default forecast and
\* risk, no payload, shock off, price 2950.0
ExampleAnswered ==
    /\ Called("predict") /\ output # <<>>
    /\ input[1].symbol = "ZZZ" /\ input[1].current_price = I(2950)
    /\ input[1].sentiment_data = NoPayload
    /\ ~output[1].shock_simulation_active

\* C11 as stated (SpecPredict): every result of predict has weighted prediction
\* = predicted price x risk adjustment x sentiment multiplier and confidence
\* = 0.50 forecaster confidence + 0.30 (1 - penalty) 100 + 0.20 sentiment
\* confidence; the example request gives 3009.0, UP, 72.5.
C11_FusionExact ==
    (Called("predict") /\ output # <<>>)
    => LET r    == output[1]
           base == get_base_forecast(market_data, input[1].symbol,
                                     input[1].current_price).predicted_price
       IN  /\ r.weighted_prediction = FusedPrice(r, base)
           /\ r.confidence_score = FusedConfidence(r)
           /\ ExampleAnswered =>
                /\ r.weighted_prediction = I(3009)
                /\ r.direction = "UP"
                /\ r.confidence_score = Q(725, 10)

\* C11 amended (SpecPredict): every result of predict has weighted prediction
\* = predicted price x risk adjustment x sentiment multiplier rounded to two
\* decimals and confidence = 0.50 forecaster confidence + 0.30 (1 - penalty) 100
\* + 0.20 sentiment confidence rounded to one decimal; the example request
\* gives 3009.0, UP, 72.5.
C11_FusionRounded ==
    (Called("predict") /\ output # <<>>)
    => LET r    == output[1]
           base == get_base_forecast(market_data, input[1].symbol,
                                     input[1].current_price).predicted_price
       IN  /\ r.weighted_prediction = Round(FusedPrice(r, base), 2)
           /\ r.confidence_score = Round(FusedConfidence(r), 1)
           /\ ExampleAnswered =>
                /\ r.weighted_prediction = I(3009)
                /\ r.direction = "UP"
                /\ r.confidence_score = Q(725, 10)

\* the example request answered with 3009.0 and 72.5
C11_Witness ==
    /\ ExampleAnswered
    /\ output[1].weighted_prediction = I(3009)
    /\ output[1].confidence_score = Q(725, 10)
    /\ output[1].components.quant_agent.base_forecast = I(3009)


-----------------------------------------------------------------------------
(* C12: the network risk penalty of a known symbol *)

KnownSymbol ==
    /\ Called("compute_laplacian_risk")
    /\ graph_data.loaded
    /\ InList(nodes, upper(input[1].symbol))

\* the positions collected for the called symbol: the first five, in the order
\* of the node list, of the nodes with a positive weight in the symbol's row
CollectedNeighbors ==
    LET row      == adjacency_matrix[index(nodes, upper(input[1].symbol))]
        positive == {j \in 1..Len(row) : Gt(row[j], I(0))}
    IN  {j \in positive : Cardinality({k \in positive : k < j}) < 5}

BearishNeighbors ==
    {j \in CollectedNeighbors :
        ~(graph_data.nodes[j].has_risk /\ Lt(graph_data.nodes[j].risk_score, Q(4, 10)))}

TierPenalty(tier, contagion) ==
    IF tier = "Critical" THEN Add(Q(5, 100), Mul(Q(5, 100), contagion))
    ELSE IF tier = "High" THEN Add(Q(3, 100), Mul(Q(3, 100), contagion))
    ELSE Mul(Q(2, 100), contagion)

ExpectedPenalty ==
    Add(TierPenalty(find_cluster(graph_data, upper(input[1].symbol)).risk,
                    contagion_of(adjacency_matrix)),
        IF 2 * Cardinality(BearishNeighbors) > Cardinality(CollectedNeighbors)
        THEN Mul(Q(2, 100), I(Cardinality(BearishNeighbors)))
        ELSE I(0))

\* C12 as stated: for a known symbol the returned penalty is the tier's base
\* plus 0.02 per bearish neighbour when the bearish neighbours are more than
\* half of the collected ones
C12_PenaltyExact ==
    KnownSymbol => output[1].network_risk_penalty = ExpectedPenalty

\* C12: for a known symbol the returned penalty is, rounded to four decimal
\* places, the tier's base (0.05 + 0.05 c for Critical, 0.03 + 0.03 c for
\* High, 0.02 c otherwise, c the contagion risk) plus 0.02 per bearish
\* neighbour exactly when the bearish neighbours are strictly more than half
\* of the collected ones; the collected neighbours are the first five nodes
\* with a positive weight to the symbol, each bearish unless its risk score
\* is below 0.4
C12_PenaltyRounded ==
    KnownSymbol =>
        /\ output[1].network_risk_penalty = Round(ExpectedPenalty, 4)
        /\ Len(output[1].neighbor_signals) = Cardinality(CollectedNeighbors)
        /\ \A k \in 1..Len(output[1].neighbor_signals) :
              LET sig == output[1].neighbor_signals[k]
              IN  /\ index(nodes, sig.symbol) \in CollectedNeighbors
                  /\ (sig.signal = "bearish") <=>
                        (index(nodes, sig.symbol) \in BearishNeighbors)

\* the hub of GraphStar: six neighbours, five collected, three of them bearish
C12_Witness ==
    /\ KnownSymbol
    /\ graph_data = GraphStar
    /\ input[1].symbol = "HUB"
    /\ Len(output[1].neighbor_signals) = 5
    /\ Cardinality(BearishNeighbors) = 3
    /\ output[1].network_risk_penalty = Q(1105, 10000)

-----------------------------------------------------------------------------
(* Loading graphData.json: the topology agent before and after              *)
(* _load_graph_data, over node lists with and without group fields and      *)
(* over link lists.                                                         *)

GroupFields == {<<FALSE, 0>>, <<TRUE, 0>>, <<TRUE, 1>>}

NodeLists ==
    {<<>>}
    \cup {<<Node("AAA", TRUE, Q(6, 10), a[1], a[2])>> : a \in GroupFields}
    \cup {<<Node("AAA", TRUE, Q(6, 10), a[1], a[2]),
            Node("BBB", TRUE, Q(3, 10), b[1], b[2])>> : a, b \in GroupFields}
    \cup {<<Node("AAA", TRUE, Q(6, 10), a[1], a[2]),
            Node("BBB", TRUE, Q(3, 10), b[1], b[2]),
            Node("CCC", FALSE, I(0), c[1], c[2])>> : a, b, c \in GroupFields}

LinkLists ==
    {<<>>,
     <<Link("AAA", "BBB", TRUE, Q(5, 10))>>,
     <<Link("AAA", "BBB", TRUE, Q(5, 10)), Link("BBB", "AAA", FALSE, I(0))>>,
     <<Link("BBB", "CCC", FALSE, I(0)), Link("AAA", "QQQ", TRUE, I(2))>>,
     <<Link("AAA", "BBB", TRUE, Q(5, 10)), Link("BBB", "BBB", TRUE, I(1))>>}

LoadFiles ==
    {NoGraph} \cup {GraphData(ns, links, <<>>) : ns \in NodeLists, links \in LinkLists}

\* lines 138-141: the fields before the load
InitLoad ==
    /\ market_data = MarketA
    /\ graph_data = NoGraph
    /\ nodes = <<>>
    /\ adjacency_matrix = <<>>
    /\ ensemble_cache = <<>>
    /\ now = 0
    /\ calls = [p \in Procs |-> Idle]
    /\ started = 0
    /\ last_store = <<>>
    /\ evicted = {}
    /\ input = <<>>
    /\ output = <<>>

\* lines 144-157: a missing file leaves the fields as they are
load_graph_data(file) ==
    /\ graph_data = NoGraph
    /\ IF file.loaded
       THEN /\ graph_data' = file
            /\ nodes' = node_ids(file)
            /\ adjacency_matrix' = build_adjacency_matrix(file)
       ELSE UNCHANGED <<graph_data, nodes, adjacency_matrix>>
    /\ UNCHANGED <<market_data, ensemble_cache, now, calls, started, last_store,
                   evicted, input, output>>

NextLoad == \E file \in LoadFiles : load_graph_data(file)

SpecLoad == InitLoad /\ [][NextLoad]_vars

\* C13: the adjacency matrix built at load is symmetric with a zero diagonal,
\* for explicit links and for edges synthesized from the groups, nodes
\* without a group field included
C13_SymmetricZeroDiagonal ==
    graph_data.loaded =>
        \A i, j \in 1..Len(adjacency_matrix) :
            /\ adjacency_matrix[i][j] = adjacency_matrix[j][i]
            /\ adjacency_matrix[i][i] = I(0)

-----------------------------------------------------------------------------
(* C14: the centrality score of a known symbol *)

OtherPositive ==
    LET node_idx == index(nodes, upper(input[1].symbol))
    IN  {j \in 1..Len(nodes) :
            j # node_idx /\ Gt(adjacency_matrix[node_idx][j], I(0))}

\* C14: for a known symbol the centrality score is the number of other nodes
\* with a positive weight to the symbol over the number of other nodes, to
\* three decimal places, and lies in [0, 1]; a graph of one node gives a
\* score in [0, 1] as well
C14_CentralityOfOthers ==
    KnownSymbol =>
        /\ InRange(output[1].centrality_score, I(0), I(1))
        /\ Len(nodes) > 1 =>
              output[1].centrality_score
                  = Round(Q(Cardinality(OtherPositive), Len(nodes) - 1), 3)

-----------------------------------------------------------------------------
(* C15: risk adjustment and network risk penalty in the results of predict *)

\* equal up to one step of the fourth decimal place
Near(x, y) == Le(FAbs(Sub(x, y)), Q(1, 10000))

PenaltyAndAdjustmentInRange ==
    LET t == output[1].components.topology_agent
    IN  /\ Le(I(0), t.network_risk_penalty)
        /\ Lt(I(0), t.risk_adjustment)
        /\ Le(t.risk_adjustment, I(1))

\* C15 as stated (SpecPredict): in every result of predict, with or without
\* the shock, the risk adjustment is 1 - network risk penalty up to the
\* rounding to four decimals, the penalty is at least 0 and the adjustment is
\* in (0, 1]
C15_AdjustmentComplementsPenalty ==
    (Called("predict") /\ output # <<>>)
    => LET t == output[1].components.topology_agent
       IN  /\ Near(t.risk_adjustment, Sub(I(1), t.network_risk_penalty))
           /\ PenaltyAndAdjustmentInRange

\* C15 (SpecPredict): in every result of predict the penalty is at least 0 and
\* the adjustment is in (0, 1]; without the shock the risk adjustment is
\* 1 - network risk penalty, and with the shock it is 0.9 times
\* (1 - (network risk penalty - 0.1)), each up to the rounding to four decimals
C15_AdjustmentComplementsUnshockedPenalty ==
    (Called("predict") /\ output # <<>>)
    => LET t == output[1].components.topology_agent
       IN  /\ IF output[1].shock_simulation_active
              THEN Near(t.risk_adjustment,
                        Mul(Q(9, 10),
                            Sub(I(1), Sub(t.network_risk_penalty, Q(1, 10)))))
              ELSE Near(t.risk_adjustment, Sub(I(1), t.network_risk_penalty))
           /\ PenaltyAndAdjustmentInRange

\* a shocked result for a node with a penalty of its own
C15_Witness ==
    /\ Called("predict")
    /\ output # <<>>
    /\ output[1].shock_simulation_active
    /\ Gt(output[1].components.topology_agent.network_risk_penalty, Q(1, 10))
    /\ output[1].components.topology_agent.risk_adjustment
         = Mul(Q(9, 10), Sub(Q(11, 10),
                             output[1].components.topology_agent.network_risk_penalty))

-----------------------------------------------------------------------------
(* C16: the shock simulation and the state shared by the requests *)

\* the fields of a risk record shown in the topology component of a result
SameRisk(t, risk) ==
    /\ t.risk_adjustment = risk.risk_adjustment
    /\ t.network_risk_penalty = risk.network_risk_penalty
    /\ t.cluster_name = risk.cluster_name
    /\ t.cluster_risk = risk.cluster_risk
    /\ t.centrality_score = risk.centrality_score
    /\ t.contagion_risk = risk.contagion_risk
    /\ t.neighbor_signals = risk.neighbor_signals

\* C16 (SpecSeq): after any sequence of predict calls, calls with the shock
\* for the same symbol and price included, a call without the shock returns
\* a result with shock_simulation_active false whose topology component is
\* what compute_laplacian_risk returns for the symbol on the graph as loaded,
\* and the graph (nodes, adjacency matrix, clusters) and the price series are
\* those loaded at construction
C16_ShockNeverLeaks ==
    /\ market_data = MarketA
    /\ graph_data = GraphSynth
    /\ nodes = node_ids(GraphSynth)
    /\ adjacency_matrix = build_adjacency_matrix(GraphSynth)
    /\ \A p \in Procs :
          LET c == calls[p]
          IN  (c.pc = "done" /\ ~c.shock_simulation)
              => /\ ~c.result[1].shock_simulation_active
                 /\ SameRisk(c.result[1].components.topology_agent,
                             compute_laplacian_risk(GraphSynth, node_ids(GraphSynth),
                                                    build_adjacency_matrix(GraphSynth),
                                                    c.symbol))

\* a call without the shock has returned after a call with the shock for the
\* same symbol and price was stored, for a node with a penalty of its own
C16_Witness ==
    LET c == calls["r1"]
    IN  /\ c.pc = "done"
        /\ ~c.shock_simulation
        /\ cache_key(c.symbol, c.current_price, TRUE) \in DOMAIN last_store
        /\ last_store[cache_key(c.symbol, c.current_price, TRUE)].value
              .components.topology_agent.network_risk_penalty
            = Add(c.result[1].components.topology_agent.network_risk_penalty, Q(1, 10))
        /\ Gt(c.result[1].components.topology_agent.network_risk_penalty, I(0))

=============================================================================
